---- MODULE Spec2Model ----
(***************************************************************************)
(* Thesis Bot: the task orchestrator (orchestrator.py), the delegation     *)
(* tool (tools/delegation.py), the task repository (db.py) and the         *)
(* checkpoint approval handlers of the chat front end (bot.py).            *)
(*                                                                         *)
(* Money is counted in cents (0.01 USD is 1).  A task id is the position   *)
(* of the task's row in the tasks table; a chat message that carries a     *)
(* checkpoint is identified by the id of the root task it belongs to.      *)
(***************************************************************************)
EXTENDS Integers, Sequences, FiniteSets, TLC

VARIABLES
    tasks,       \* db.py: the rows of table tasks, in creation order
    cost_log,    \* db.py: the rows of table cost_log
    memory,      \* db.py: the rows of table memory_session
    frames,      \* orchestrator.py: the activation of run_agent_loop of each task
    pending,     \* bot.py: _pending_checkpoints
    posted,      \* bot.py: which checkpoint message the bot posted for each root
    recovered,   \* orchestrator.py: what the last run of recover_stale_tasks returned
    hist         \* observations of the run, per task (never read by the program)

vars == <<tasks, cost_log, memory, frames, pending, posted, recovered, hist>>

-----------------------------------------------------------------------------
(* config.py *)

MAX_DELEGATION_DEPTH == 3
MAX_SUBTASK_BUDGET == 100
MIN_SUBTASK_BUDGET == 1
MAX_SUBTASKS_PER_TASK == 15
PLANNER_RESERVE_BUDGET == 10
DEFAULT_TASK_BUDGET == 100
MAX_TASK_BUDGET == 2000
COST_LIMIT_DAILY == 2000

STEPS_BY_DEPTH(depth) ==
    CASE depth = 0 -> 20
      [] depth = 1 -> 10
      [] depth = 2 -> 6
      [] depth = 3 -> 3
      [] OTHER -> 3

(* Bounds of the model *)

MaxTasks == 17      \* rows of table tasks
MaxCalls == 4       \* calls of the reasoning service, all tasks together
MaxRoots == 1       \* tasks submitted by the user
MaxDescription == 5 \* tokens of a submitted description
MaxInFlight == 2    \* tasks submitted while others run

-----------------------------------------------------------------------------
(* Values *)

NULL == "NULL"
NoParent == 0

Min(a, b) == IF a < b THEN a ELSE b
Max(a, b) == IF a > b THEN a ELSE b

Terminal == {"completed", "failed", "stalled"}

(* The text of a response, by the classes the program tells apart: no text  *)
(* block at all, a text, a text with a "$" in it whose part before the "$"  *)
(* is no number, a text holding one of the uncertainty markers.             *)
NoText == ""
PlainText == "here is the plan"
DollarText == "plan: reads cost $0.05"
UnsureText == "should i proceed"
Texts == {NoText, PlainText, DollarText, UnsureText}

DelegateTask(budget_usd) == [name |-> "delegate_task", budget_usd |-> budget_usd]
ReadFile == [name |-> "read_file", budget_usd |-> 0]

(* One delegation more than a parent may hold. *)
ManyDelegations == [i \in 1..(MAX_SUBTASKS_PER_TASK + 1) |-> DelegateTask(5)]

(* A tool_use block of a response: the request with the id the service     *)
(* gives it, here its position in the response.                            *)
ToolUse(id, request) ==
    [id |-> id, name |-> request.name, budget_usd |-> request.budget_usd]

Response(text, tool_uses, stop_reason, cost) ==
    [text |-> text,
     tool_uses |-> [i \in 1..Len(tool_uses) |-> ToolUse(i, tool_uses[i])],
     stop_reason |-> stop_reason, cost |-> cost]

(* The responses of the reasoning service the model draws from. *)
Responses ==
    { Response(PlainText, <<>>, "end_turn", 40),
      Response(PlainText, <<DelegateTask(200)>>, "tool_use", 0),
      Response(NoText, <<DelegateTask(200)>>, "tool_use", 40),
      Response(DollarText, <<DelegateTask(200)>>, "tool_use", 40),
      Response(UnsureText, <<ReadFile>>, "tool_use", 0),
      Response(PlainText, <<DelegateTask(0), DelegateTask(200)>>, "tool_use", 40),
      Response(PlainText, ManyDelegations, "tool_use", 40) }

(* A description is a sequence of tokens: single characters, the word    *)
(* "Every" (it holds a decomposition signal, in mixed case) and "x300", a  *)
(* run of 300 letters that holds none.                                     *)
Digits == {"0", "3", "5"}
Whitespace == {" "}
Tokens == {"$", "0", "5", ".", " ", "a", "Every", "x300"}

DigitValue(token) == CASE token = "0" -> 0 [] token = "3" -> 3 [] token = "5" -> 5

len(description) ==
    LET width(token) == CASE token = "Every" -> 5 [] token = "x300" -> 300 [] OTHER -> 1
        sum[i \in 0..Len(description)] ==
            IF i = 0 THEN 0 ELSE sum[i - 1] + width(description[i])
    IN  sum[Len(description)]

lower(token) == IF token = "Every" THEN "every" ELSE token

(* Every description of at most MaxDescription tokens. *)
Descriptions == UNION {[1..n -> Tokens] : n \in 0..MaxDescription}

(* The descriptions the user submits where a task is run to its end: a     *)
(* worker of budget 0.30 and a planner by its budget of 5.00. A planner by *)
(* a signal is among RoleDescriptions and StepDescriptions.                *)
RootDescriptions ==
    { <<"$", "0", ".", "3", " ", "a">>,
      <<"$", "5", " ", "a">> }

(* The descriptions submitted where the role of a task is followed through *)
(* its runs: those above, a planner of budget 0.30 by a signal and one by  *)
(* length, and a worker and a planner by a signal of the default budget.   *)
RoleDescriptions ==
    RootDescriptions \cup
    { <<"$", "0", ".", "3", " ", "Every">>,
      <<"$", "0", ".", "3", " ", "x300", "a">>,
      <<"a">>,
      <<"a", " ", "Every">> }

(* What a delegation request asks for, as the text of the child's task. *)
SubtaskDescription == <<"a">>

Turn(role, text, tool_uses, results) ==
    [role |-> role, text |-> text, tool_uses |-> tool_uses, results |-> results]

UserTurn(text) == Turn("user", text, <<>>, <<>>)
AssistantTurn(response) == Turn("assistant", response.text, response.tool_uses, <<>>)
ToolResultTurn_reversed(results) ==
    Turn("user", NoText, <<>>, [i \in 1..Len(results) |-> results[Len(results) + 1 - i]])

ToolResultTurn(results) == Turn("user", NoText, <<>>, results)

(* A text as its characters: runs of equal characters.  The texts of the   *)
(* model are named by strings; the characters of a text are one run for    *)
(* its first 450 characters and one run for the rest.                     *)
Run(char, n) == [char |-> char, n |-> n]

Text450 == "a text of 450 characters"
Text500 == "a text of 500 characters"
Text501 == "a text of 501 characters"

(* len() of a text: the other texts of the model are short. *)
strlen(text) ==
    CASE text = NoText -> 0
      [] text = Text450 -> 450
      [] text = Text500 -> 500
      [] text = Text501 -> 501
      [] OTHER -> 16

Characters(text) ==
    IF strlen(text) = 0 THEN <<>>
    ELSE IF strlen(text) <= 450 THEN <<Run("first 450", strlen(text))>>
    ELSE <<Run("first 450", 450), Run("rest", strlen(text) - 450)>>

RECURSIVE Length(_)
Length(runs) == IF runs = <<>> THEN 0 ELSE Head(runs).n + Length(Tail(runs))

(* runs[:n] *)
RECURSIVE Take(_, _)
Take(runs, n) ==
    IF n <= 0 \/ runs = <<>> THEN <<>>
    ELSE IF Head(runs).n <= n THEN <<Head(runs)>> \o Take(Tail(runs), n - Head(runs).n)
    ELSE <<Run(Head(runs).char, n)>>

NoOutput == <<Run("(no output)", 11)>>

Truncate_keeps_500(response) ==
    IF Length(response) > 500
    THEN [response |-> Take(response, 500), truncated |-> Length(response)]
    ELSE [response |-> response, truncated |-> 0]

(* handle_delegation, lines 129-130: the response, and the total the       *)
(* truncation marker names (0: no marker)                                  *)
Truncate(response) ==
    IF Length(response) > 500
    THEN [response |-> Take(response, 450), truncated |-> Length(response)]
    ELSE [response |-> response, truncated |-> 0]

(* handle_delegation, line 132 *)
StatusPrefix(status) == IF status # "completed" THEN <<"[", status, "] ">> ELSE <<>>

(* handle_delegation, lines 126-133: the text returned for a child that    *)
(* ran, by its parts                                                       *)
SubtaskResultText(result, child_cost) ==
    LET response == IF Characters(result.response) # <<>>
                    THEN Characters(result.response) ELSE NoOutput
    IN  [status_prefix |-> StatusPrefix(result.status),
         child_cost |-> child_cost,
         response |-> Truncate(response).response,
         truncated |-> Truncate(response).truncated]

(* The content of a result that is no text of a subtask. *)
NoContent == [status_prefix |-> <<>>, child_cost |-> 0, response |-> <<>>, truncated |-> 0]

ToolResult(tool_use_id, kind, child, status, cost, content) ==
    [tool_use_id |-> tool_use_id, kind |-> kind, child |-> child, status |-> status,
     cost |-> cost, content |-> content]

NoOutcome == [status |-> NULL, response |-> NoText, needs_checkpoint |-> FALSE,
              checkpoint_reason |-> "", conversation_history |-> <<>>]

TaskResult(status, response, needs_checkpoint, checkpoint_reason, conversation_history) ==
    [status |-> status, response |-> response, needs_checkpoint |-> needs_checkpoint,
     checkpoint_reason |-> checkpoint_reason, conversation_history |-> conversation_history]

TaskIds == 1..Len(tasks)

-----------------------------------------------------------------------------
(* db.py: the task repository *)

Row(status, description, depth, parent_task_id, budget, max_steps) ==
    [status |-> status, description |-> description, depth |-> depth,
     parent_task_id |-> parent_task_id,
     budget |-> budget, max_steps |-> max_steps, step_count |-> 0,
     token_cost |-> 0, result |-> NULL, error |-> NULL]

create_task(ts, description, max_steps, budget, depth, parent_task_id) ==
    Append(ts, Row("queued", description, depth, parent_task_id, budget, max_steps))

get_subtask_count(ts, parent_task_id) ==
    Cardinality({i \in 1..Len(ts) : ts[i].parent_task_id = parent_task_id})

(* The ancestors of a task, nearest first: the chain the cascade walks. *)
RECURSIVE ParentChain(_, _)
ParentChain(ts, task_id) ==
    IF ts[task_id].parent_task_id = NoParent
    THEN <<>>
    ELSE <<ts[task_id].parent_task_id>> \o ParentChain(ts, ts[task_id].parent_task_id)

SeqToSet(s) == {s[i] : i \in 1..Len(s)}

cascade_direct_parent_only(ts, child_task_id, cost) ==
    [i \in 1..Len(ts) |->
        IF i = ts[child_task_id].parent_task_id
        THEN [ts[i] EXCEPT !.token_cost = @ + cost]
        ELSE ts[i]]

cascade_dropped(ts, child_task_id, cost) == ts

cascade_to_every_root(ts, child_task_id, cost) == [i \in 1..Len(ts) |-> IF ts[i].parent_task_id = NoParent \/ i \in SeqToSet(ParentChain(ts, child_task_id)) THEN [ts[i] EXCEPT !.token_cost = @ + cost] ELSE ts[i]]

cascade_cost_to_parent(ts, child_task_id, cost) ==
    [i \in 1..Len(ts) |->
        IF i \in SeqToSet(ParentChain(ts, child_task_id))
        THEN [ts[i] EXCEPT !.token_cost = @ + cost]
        ELSE ts[i]]

get_stale_tasks_queued(ts) ==
    SelectSeq([i \in 1..Len(ts) |-> i], LAMBDA i : ts[i].status = "queued")

(* The ids of the rows get_stale_tasks returns. *)
get_stale_tasks(ts) ==
    SelectSeq([i \in 1..Len(ts) |-> i], LAMBDA i : ts[i].status = "in_progress")

(* save_session_memory, lines 304-312: INSERT OR REPLACE on the key        *)
(* sm_<task_id>                                                            *)
save_session_memory(rows, task_id) ==
    LET row == [id |-> <<"sm", task_id>>, task_id |-> task_id]
    IN  IF \E i \in 1..Len(rows) : rows[i].id = row.id
        THEN [i \in 1..Len(rows) |-> IF rows[i].id = row.id THEN row ELSE rows[i]]
        ELSE Append(rows, row)

log_cost_row(task_id, cost_usd) == [task_id |-> task_id, cost_usd |-> cost_usd]

RECURSIVE SumCost(_)
SumCost(log) == IF log = <<>> THEN 0 ELSE Head(log).cost_usd + SumCost(Tail(log))

get_daily_cost(log) == SumCost(log)

(* What the cost log holds for one task. *)
Logged(log, task_id) ==
    SumCost(SelectSeq(log, LAMBDA e : e.task_id = task_id))

-----------------------------------------------------------------------------
(* orchestrator.py: the activation of run_agent_loop *)

Frame(pc, role, depth, budget, conversation_history) ==
    [pc |-> pc, role |-> role, depth |-> depth, budget |-> budget,
     conversation_history |-> conversation_history,
     messages |-> <<>>, step |-> 0, final_response |-> NoText,
     planner_first_response |-> FALSE,
     tool_uses |-> <<>>, tool_results |-> <<>>,
     child |-> 0, child_cost |-> 0,
     outcome |-> NoOutcome]

NoResponse == Response(NoText, <<>>, NULL, 0)

History ==
    [cascades |-> 0, tools_run |-> 0, calls |-> 0, first_response |-> NoResponse,
     suspended |-> <<>>, first_sent |-> <<>>, parent_remaining |-> 0,
     rejected |-> FALSE, submitted |-> <<>>, role |-> NULL, acted_step |-> 0,
     fault |-> NULL, notify_failed |-> FALSE, run_calls |-> 0, exhausted |-> FALSE,
     requested |-> <<>>, entries |-> 0]

Roots == {t \in TaskIds : tasks[t].parent_task_id = NoParent}
Children(t) == {c \in TaskIds : tasks[c].parent_task_id = t}
TotalCalls == Len(cost_log) - (IF cost_log # <<>> /\ cost_log[1].task_id = 0 THEN 1 ELSE 0)

(* Where the run of tokens of one class that starts at position i ends. *)
RECURSIVE RunEnd(_, _, _)
RunEnd(description, i, class) ==
    IF i <= Len(description) /\ description[i] \in class
    THEN RunEnd(description, i + 1, class)
    ELSE i

(* The match of _BUDGET_RE (a dollar sign, digits, at most one point,     *)
(* digits, whitespace) at the start of the description: the tokens of      *)
(* group 1 and the position of the last token matched (0: no match).       *)
_BUDGET_RE(description) ==
    LET int_end == RunEnd(description, 2, Digits)
        frac_start == IF int_end <= Len(description) /\ description[int_end] = "."
                      THEN int_end + 1 ELSE int_end
        frac_end == RunEnd(description, frac_start, Digits)
        space_end == RunEnd(description, frac_end, Whitespace)
    IN  IF /\ description # <<>>
           /\ description[1] = "$"
           /\ int_end > 2
           /\ space_end > frac_end
        THEN [group |-> SubSeq(description, 2, frac_end - 1), end |-> space_end - 1]
        ELSE [group |-> <<>>, end |-> 0]

(* float() of the digits of group 1, in cents: the digits after the second *)
(* decimal are below the unit of the model and are dropped.                *)
RECURSIVE Decimal(_)
Decimal(digits) ==
    IF digits = <<>> THEN 0
    ELSE Decimal(SubSeq(digits, 1, Len(digits) - 1)) * 10 + DigitValue(digits[Len(digits)])

float(group) ==
    LET int_end == RunEnd(group, 1, Digits)
        int == SubSeq(group, 1, int_end - 1)
        frac == SubSeq(group, int_end + 1, Len(group))
        cents == SubSeq(frac \o <<"0", "0">>, 1, 2)
    IN  Decimal(int) * 100 + Decimal(cents)

_parse_budget_unclamped(description) ==
    LET match == _BUDGET_RE(description)
    IN  IF match.end > 0
        THEN [budget |-> float(match.group),
              description |-> SubSeq(description, match.end + 1, Len(description))]
        ELSE [budget |-> DEFAULT_TASK_BUDGET, description |-> description]

(* _parse_budget, lines 79-86 *)
_parse_budget(description) ==
    LET match == _BUDGET_RE(description)
    IN  IF match.end > 0
        THEN [budget |-> Max(1, Min(float(match.group), MAX_TASK_BUDGET)),
              description |-> SubSeq(description, match.end + 1, Len(description))]
        ELSE [budget |-> DEFAULT_TASK_BUDGET, description |-> description]

_DECOMPOSE_SIGNALS == {"every"}

_is_decomposable_by_budget_only(description, budget) == budget > 200

(* _is_decomposable, lines 89-98 *)
_is_decomposable(description, budget) ==
    \/ budget > 200
    \/ \E i \in 1..Len(description) : lower(description[i]) \in _DECOMPOSE_SIGNALS
    \/ len(description) > 300

_should_checkpoint(response_text) == response_text = UnsureText

(* bot.py line 162: float(result.response.split("$")[0]) raises ValueError *)
BudgetGuessRaises(response_text) == response_text = DollarText

RestartDiagnostic == "Recovered after restart"

(* recover_stale_tasks, lines 443-450: the rows after the sweep and the    *)
(* messages returned, each named by the task it reports                    *)
recover_stale_tasks(ts) ==
    LET stale == get_stale_tasks(ts)
    IN  [tasks |-> [i \in 1..Len(ts) |->
                       IF i \in SeqToSet(stale)
                       THEN [ts[i] EXCEPT !.status = "failed", !.error = RestartDiagnostic]
                       ELSE ts[i]],
         messages |-> stale]

Init ==
    /\ tasks = <<>>
    /\ cost_log \in {<<>>, <<log_cost_row(0, COST_LIMIT_DAILY)>>}
    /\ memory = <<>>
    /\ frames = <<>>
    /\ pending = [m \in {} |-> 0]
    /\ posted = [m \in {} |-> 0]
    /\ recovered = <<>>
    /\ hist = <<>>

(* No handler of the front end is running: every activation has returned    *)
(* and its outcome has been handled.                                        *)
Idle == \A t \in TaskIds : frames[t].pc = "done"

(* process_task, lines 113-126: the budget is parsed, the root row is      *)
(* created, the role is decided                                            *)
process_task(task_description) ==
    /\ Len(tasks) < MaxTasks
    /\ LET parsed == _parse_budget(task_description)
           budget == parsed.budget
           description == parsed.description
           role == IF _is_decomposable(description, budget) THEN "planner" ELSE "worker"
       IN  /\ tasks' = create_task(tasks, description, STEPS_BY_DEPTH(0), budget, 0, NoParent)
           /\ frames' = Append(frames, Frame("classify", role, 0, budget, <<>>))
           /\ hist' = Append(hist, [History EXCEPT !.submitted = task_description,
                                                   !.role = role])
    /\ UNCHANGED <<cost_log, memory, pending, posted, recovered>>

(* on_message, lines 87-129: a message is handled while no other handler   *)
(* is running                                                              *)
ProcessTask(task_description) ==
    /\ Idle
    /\ Cardinality(Roots) < MaxRoots
    /\ process_task(task_description)

(* on_message, lines 87-129: a message is handled whatever the other       *)
(* handlers are doing                                                      *)
ProcessTaskInFlight(task_description) ==
    /\ Cardinality(Roots) < MaxInFlight
    /\ process_task(task_description)

(* process_task, lines 122-128 *)
Classify(t) ==
    /\ frames[t].pc = "classify"
    /\ tasks' = [tasks EXCEPT ![t].status = "classifying"]
    /\ frames' = [frames EXCEPT ![t].pc = "setup"]
    /\ UNCHANGED <<cost_log, memory, pending, posted, hist, recovered>>

InitialMessages_rebuilt(conversation_history, depth) == <<UserTurn("task")>>

(* run_agent_loop, lines 220-229 *)
InitialMessages(conversation_history, depth) ==
    IF conversation_history # <<>> THEN conversation_history ELSE <<UserTurn("task")>>

(* run_agent_loop, lines 195-235 *)
Setup(t) ==
    /\ frames[t].pc = "setup"
    /\ tasks' = [tasks EXCEPT ![t].status = "in_progress"]
    /\ frames' = [frames EXCEPT
            ![t].pc = "loop",
            ![t].messages = InitialMessages(frames[t].conversation_history, frames[t].depth),
            ![t].step = 0,
            ![t].final_response = NoText,
            ![t].planner_first_response =
                (frames[t].role = "planner" /\ frames[t].conversation_history = <<>>)]
    /\ hist' = [hist EXCEPT ![t].acted_step = 0, ![t].run_calls = 0,
                             ![t].exhausted = FALSE]
    /\ UNCHANGED <<cost_log, memory, pending, posted, recovered>>

Stalled(t, error, step) ==
    /\ tasks' = [tasks EXCEPT ![t].step_count = step, ![t].status = "stalled", ![t].error = error]
    /\ frames' = [frames EXCEPT
            ![t].step = step,
            ![t].pc = "returned",
            ![t].outcome = TaskResult("stalled", error, FALSE, "", <<>>)]

BudgetExceeded_unchecked(token_cost, budget) == FALSE

(* run_agent_loop, line 243: the budget guard *)
BudgetExceeded(token_cost, budget) == token_cost > budget

WhileStep_one_more(step, max_steps) == step <= max_steps

(* run_agent_loop, line 238: the loop test *)
WhileStep(step, max_steps) == step < max_steps

(* run_agent_loop, lines 238-258: the loop test, the step count, the guards *)
LoopTop(t) ==
    /\ frames[t].pc = "loop"
    /\ LET f == frames[t]
           step == f.step + 1
       IN  IF WhileStep(f.step, STEPS_BY_DEPTH(f.depth))
           THEN IF BudgetExceeded(tasks[t].token_cost, f.budget)
                THEN Stalled(t, "Budget exceeded", step)
                ELSE IF get_daily_cost(cost_log) > COST_LIMIT_DAILY
                THEN Stalled(t, "Daily cost limit exceeded", step)
                ELSE /\ tasks' = [tasks EXCEPT ![t].step_count = step]
                     /\ frames' = [frames EXCEPT ![t].step = step, ![t].pc = "call"]
           ELSE /\ frames' = [frames EXCEPT ![t].pc = "complete"]
                /\ UNCHANGED tasks
    /\ hist' = [hist EXCEPT ![t].exhausted =
                    ~WhileStep(frames[t].step, STEPS_BY_DEPTH(frames[t].depth))]
    /\ UNCHANGED <<cost_log, memory, pending, posted, recovered>>

(* run_agent_loop, line 288: the planner's first text is a plan to approve *)
PlanReady(f, final_response) ==
    f.planner_first_response /\ final_response # NoText

(* run_agent_loop, line 309: the turn the checkpoint logic is taken to have added *)
AddedByCheckpointLogic(f) ==
    f.role = "planner" /\ f.step = 1 /\ f.conversation_history = <<>>

(* run_agent_loop, lines 260-310: one call of the reasoning service, its   *)
(* cost, and what the loop decides from the response                       *)
call_claude(t, r) ==
    /\ frames[t].pc = "call"
    /\ LET f == frames[t]
           final_response == IF r.text # NoText THEN r.text ELSE f.final_response
           plan == PlanReady(f, final_response)
           added == IF plan THEN Append(f.messages, AssistantTurn(r)) ELSE f.messages
           charged == [tasks EXCEPT ![t].token_cost = @ + r.cost]
       IN  /\ cost_log' = Append(cost_log, log_cost_row(t, r.cost))
           /\ hist' = [hist EXCEPT
                  ![t].calls = @ + 1,
                  ![t].run_calls = @ + 1,
                  ![t].requested = r.tool_uses,
                  ![t].acted_step = f.step,
                  ![t].first_response = IF hist[t].calls = 0 THEN r ELSE @,
                  ![t].first_sent =
                      IF f.conversation_history # <<>> /\ @ = <<>> THEN f.messages ELSE @,
                  ![t].suspended =
                      IF plan /\ r.tool_uses # <<>> THEN added ELSE @]
           /\ IF plan /\ r.tool_uses # <<>>
              THEN /\ tasks' = [charged EXCEPT ![t].status = "checkpoint"]
                   /\ frames' = [frames EXCEPT
                          ![t].pc = "returned",
                          ![t].final_response = final_response,
                          ![t].planner_first_response = FALSE,
                          ![t].messages = added,
                          ![t].outcome = TaskResult("checkpoint", final_response, TRUE,
                                                    "Plan ready for approval", added)]
              ELSE IF r.stop_reason = "end_turn" \/ r.tool_uses = <<>>
              THEN /\ tasks' = charged
                   /\ frames' = [frames EXCEPT
                          ![t].pc = "complete",
                          ![t].final_response = final_response,
                          ![t].planner_first_response = f.planner_first_response /\ ~plan,
                          ![t].messages = added]
              ELSE /\ tasks' = charged
                   /\ frames' = [frames EXCEPT
                          ![t].pc = "tools",
                          ![t].final_response = final_response,
                          ![t].planner_first_response = f.planner_first_response /\ ~plan,
                          ![t].messages =
                              IF ~AddedByCheckpointLogic(f)
                              THEN Append(added, AssistantTurn(r))
                              ELSE added,
                          ![t].tool_uses = r.tool_uses,
                          ![t].tool_results = <<>>]
    /\ UNCHANGED <<memory, pending, posted, recovered>>

(* The same, while the calls of all tasks together are below MaxCalls. *)
CallClaude(t, r) ==
    /\ TotalCalls < MaxCalls
    /\ call_claude(t, r)

(* run_agent_loop, lines 333-339: a tool other than delegate_task *)
ExecuteTool(t) ==
    /\ frames[t].pc = "tools"
    /\ frames[t].tool_uses # <<>>
    /\ Head(frames[t].tool_uses).name # "delegate_task"
    /\ frames' = [frames EXCEPT
            ![t].tool_uses = Tail(@),
            ![t].tool_results = Append(@, ToolResult(Head(frames[t].tool_uses).id, "tool", 0, "", 0, NoContent))]
    /\ hist' = [hist EXCEPT ![t].tools_run = @ + 1, ![t].acted_step = frames[t].step]
    /\ UNCHANGED <<tasks, cost_log, memory, pending, posted, recovered>>

ChildDepth_same(parent_depth) == parent_depth

(* handle_delegation, line 84; run_subtask, line 386 *)
ChildDepth(parent_depth) == parent_depth + 1

SubtaskLimitReached_late(count) == count > MAX_SUBTASKS_PER_TASK

(* handle_delegation, line 90 *)
SubtaskLimitReached(count) == count >= MAX_SUBTASKS_PER_TASK

ClampBudget_ignores_parent(budget, parent_budget_remaining) ==
    Min(Max(budget, MIN_SUBTASK_BUDGET), MAX_SUBTASK_BUDGET)

(* handle_delegation, lines 94-95 *)
ClampBudget(budget, parent_budget_remaining) ==
    Min(Min(Max(budget, MIN_SUBTASK_BUDGET), MAX_SUBTASK_BUDGET), parent_budget_remaining)

DelegationError_budget_unchecked(ts, parent_task_id, parent_depth, budget, parent_budget_remaining) ==
    IF ChildDepth(parent_depth) > MAX_DELEGATION_DEPTH
    THEN "Error: Max delegation depth reached"
    ELSE IF SubtaskLimitReached(get_subtask_count(ts, parent_task_id))
    THEN "Error: Max subtask limit reached"
    ELSE NULL

(* Why handle_delegation answers with an error string, or NULL (lines 83-97) *)
DelegationError(ts, parent_task_id, parent_depth, budget, parent_budget_remaining) ==
    IF ChildDepth(parent_depth) > MAX_DELEGATION_DEPTH
    THEN "Error: Max delegation depth reached"
    ELSE IF SubtaskLimitReached(get_subtask_count(ts, parent_task_id))
    THEN "Error: Max subtask limit reached"
    ELSE IF ClampBudget(budget, parent_budget_remaining) < MIN_SUBTASK_BUDGET
    THEN "Error: Insufficient budget remaining"
    ELSE NULL

DelegationErrors ==
    {"Error: Max delegation depth reached", "Error: Max subtask limit reached",
     "Error: Insufficient budget remaining"}

AwaitSubtask_detached(f, child) == [f EXCEPT !.tool_uses = Tail(@), !.child = child]

(* handle_delegation, line 102: the parent waits for run_subtask to return *)
AwaitSubtask(f, child) == [f EXCEPT !.pc = "child", !.child = child]

(* run_agent_loop, lines 315-332 with handle_delegation, lines 78-110, and *)
(* run_subtask, lines 386-396: the request is refused with an error       *)
(* string, or the child row is created and the child's loop is started     *)
HandleDelegation(t) ==
    /\ frames[t].pc = "tools"
    /\ frames[t].tool_uses # <<>>
    /\ Head(frames[t].tool_uses).name = "delegate_task"
    /\ LET f == frames[t]
           remaining == f.budget - tasks[t].token_cost
           requested == Head(f.tool_uses).budget_usd
           error == DelegationError(tasks, t, f.depth, requested, remaining)
           child == Len(tasks) + 1
           child_depth == ChildDepth(f.depth)
           budget == ClampBudget(requested, remaining)
       IN  IF error # NULL
           THEN /\ frames' = [frames EXCEPT
                       ![t].tool_uses = Tail(@),
                       ![t].tool_results = Append(@, ToolResult(Head(f.tool_uses).id, "error", 0, error, 0, NoContent))]
                /\ hist' = [hist EXCEPT ![t].tools_run = @ + 1, ![t].acted_step = f.step]
                /\ UNCHANGED tasks
           ELSE /\ Len(tasks) < MaxTasks
                /\ tasks' = create_task(tasks, SubtaskDescription,
                                        STEPS_BY_DEPTH(child_depth), budget, child_depth, t)
                /\ frames' = Append([frames EXCEPT ![t] = AwaitSubtask(f, child)],
                                    Frame("setup", "worker", child_depth, budget, <<>>))
                /\ hist' = Append([hist EXCEPT ![t].tools_run = @ + 1,
                                                ![t].acted_step = f.step],
                                  [History EXCEPT !.parent_remaining =
                                       tasks[t].budget - tasks[t].token_cost,
                                                  !.role = "worker"])
    /\ UNCHANGED <<cost_log, memory, pending, posted, recovered>>

(* handle_delegation, lines 112-115: the child's loop has returned *)
CascadeCost(t) ==
    /\ frames[t].pc = "child"
    /\ frames[frames[t].child].pc = "returned"
    /\ LET child == frames[t].child
           child_cost == tasks[child].token_cost
       IN  /\ tasks' = cascade_cost_to_parent(tasks, child, child_cost)
           /\ frames' = [frames EXCEPT
                  ![t].pc = "report", ![t].child_cost = child_cost, ![child].pc = "done"]
           /\ hist' = [hist EXCEPT ![child].cascades = @ + 1]
    /\ UNCHANGED <<cost_log, memory, pending, posted, recovered>>

(* handle_delegation, lines 117-133, and run_agent_loop, lines 328-332 *)
ReportSubtask(t) ==
    /\ frames[t].pc = "report"
    /\ LET child == frames[t].child
       IN  frames' = [frames EXCEPT
               ![t].pc = "tools",
               ![t].tool_uses = Tail(@),
               ![t].tool_results = Append(@,
                   ToolResult(Head(frames[t].tool_uses).id, "subtask", child,
                              frames[child].outcome.status,
                              frames[t].child_cost,
                              SubtaskResultText(frames[child].outcome,
                                                frames[t].child_cost)))]
    /\ UNCHANGED <<tasks, cost_log, memory, pending, posted, hist, recovered>>

(* run_agent_loop, lines 341-352: the results become one turn; a root      *)
(* worker whose text is uncertain is suspended                             *)
AppendToolResults(t) ==
    /\ frames[t].pc = "tools"
    /\ frames[t].tool_uses = <<>>
    /\ LET f == frames[t]
           messages == Append(f.messages, ToolResultTurn(f.tool_results))
       IN  IF /\ f.depth = 0
              /\ f.role = "worker"
              /\ f.final_response # NoText
              /\ _should_checkpoint(f.final_response)
           THEN /\ tasks' = [tasks EXCEPT ![t].status = "checkpoint"]
                /\ frames' = [frames EXCEPT
                       ![t].pc = "returned",
                       ![t].messages = messages,
                       ![t].outcome = TaskResult("checkpoint", f.final_response, TRUE,
                                                 "Claude expressed uncertainty", <<>>)]
           ELSE /\ frames' = [frames EXCEPT ![t].pc = "loop", ![t].messages = messages]
                /\ UNCHANGED tasks
    /\ UNCHANGED <<cost_log, memory, pending, posted, hist, recovered>>

Complete_stalled(t) ==
    /\ frames[t].pc = "complete"
    /\ tasks' = [tasks EXCEPT ![t].status = "stalled", ![t].error = "Step limit reached"]
    /\ frames' = [frames EXCEPT
            ![t].pc = "returned",
            ![t].outcome = TaskResult("stalled", frames[t].final_response, FALSE, "", <<>>)]
    /\ UNCHANGED <<cost_log, memory, pending, posted, hist, recovered>>

SavesMemory_at_any_depth(depth) == TRUE

(* run_agent_loop, line 358 *)
SavesMemory(depth) == depth = 0

(* run_agent_loop, lines 354-369 *)
Complete(t) ==
    /\ frames[t].pc = "complete"
    /\ tasks' = [tasks EXCEPT ![t].status = "completed",
                              ![t].result = frames[t].final_response]
    /\ memory' = IF SavesMemory(frames[t].depth)
                 THEN save_session_memory(memory, t)
                 ELSE memory
    /\ frames' = [frames EXCEPT
            ![t].pc = "returned",
            ![t].outcome = TaskResult("completed", frames[t].final_response, FALSE, "", <<>>)]
    /\ UNCHANGED <<cost_log, pending, posted, hist, recovered>>

-----------------------------------------------------------------------------
(* bot.py: the chat front end *)

APPROVE == "white_check_mark"
REJECT == "x"

With(f, key, value) == [k \in DOMAIN f \cup {key} |-> IF k = key THEN value ELSE f[k]]
Without_keeps(f, key) == f

(* del f[key] *)
Without(f, key) == [k \in DOMAIN f \ {key} |-> f[k]]

(* on_message, lines 158-169: the entry kept for a plan awaiting approval *)
Checkpoint(task_id, result, budget) ==
    [task_id |-> task_id, conversation_history |-> result.conversation_history,
     budget |-> budget]

(* on_message, lines 131-187: what the front end does with the outcome of  *)
(* process_task                                                            *)
OnMessageResult(t) ==
    /\ frames[t].pc = "returned"
    /\ frames[t].depth = 0
    /\ frames[t].conversation_history = <<>>
    /\ LET result == frames[t].outcome
       IN  IF result.status = "checkpoint"
           THEN IF result.conversation_history # <<>>
                THEN /\ posted' = With(posted, t, "plan")
                     /\ pending' = IF BudgetGuessRaises(result.response)
                                   THEN pending
                                   ELSE With(pending, t,
                                             Checkpoint(t, result, tasks[t].budget))
                ELSE /\ posted' = With(posted, t, "checkpoint")
                     /\ UNCHANGED pending
           ELSE UNCHANGED <<posted, pending>>
    /\ frames' = [frames EXCEPT ![t].pc = "done"]
    /\ hist' = [hist EXCEPT ![t].entries =
                    IF pending' # pending THEN @ + 1 ELSE @]
    /\ UNCHANGED <<tasks, cost_log, memory, recovered>>

(* on_reaction_add, lines 217-230: the outcome of continue_task *)
OnReactionResult(t) ==
    /\ frames[t].pc = "returned"
    /\ frames[t].depth = 0
    /\ frames[t].conversation_history # <<>>
    /\ frames' = [frames EXCEPT ![t].pc = "done"]
    /\ UNCHANGED <<tasks, cost_log, memory, pending, posted, hist, recovered>>

(* continue_task, lines 155-169: the activation the approval starts *)
continue_task(task_id, conversation_history, budget) ==
    Frame("setup", "planner", 0, budget, conversation_history)

(* on_reaction_add, lines 191-236: a user reacts to a checkpoint message *)
OnReactionAdd(message_id, emoji) ==
    /\ Idle
    /\ message_id \in DOMAIN posted
    /\ IF message_id \notin DOMAIN pending
       THEN /\ hist' = [hist EXCEPT ![message_id].rejected =
                            @ \/ (emoji = REJECT /\ tasks[message_id].status = "checkpoint")]
            /\ UNCHANGED <<tasks, frames, pending>>
       ELSE LET checkpoint == pending[message_id]
                task_id == checkpoint.task_id
            IN  /\ pending' = Without(pending, message_id)
                /\ IF emoji = APPROVE
                   THEN /\ tasks' = [tasks EXCEPT ![task_id].status = "in_progress"]
                        /\ frames' = [frames EXCEPT ![task_id] =
                               continue_task(task_id, checkpoint.conversation_history,
                                             checkpoint.budget)]
                        /\ UNCHANGED hist
                   ELSE /\ tasks' = [tasks EXCEPT ![task_id].status = "failed",
                                                  ![task_id].error = "User rejected plan"]
                        /\ hist' = [hist EXCEPT ![task_id].rejected = TRUE]
                        /\ UNCHANGED frames
    /\ UNCHANGED <<cost_log, memory, posted, recovered>>

(* The process dies, whatever its handlers were doing, and is started       *)
(* again: the activations and _pending_checkpoints are gone, the           *)
(* repository and the messages sent stay, and on_ready (lines 59-85) runs  *)
(* recover_stale_tasks.                                                    *)
Restart ==
    /\ frames' = [t \in DOMAIN frames |-> [frames[t] EXCEPT !.pc = "done"]]
    /\ pending' = [m \in {} |-> 0]
    /\ tasks' = recover_stale_tasks(tasks).tasks
    /\ recovered' = recover_stale_tasks(tasks).messages
    /\ UNCHANGED <<cost_log, memory, posted, hist>>

-----------------------------------------------------------------------------

Next ==
    \/ \E description \in RootDescriptions : ProcessTask(description)
    \/ \E t \in TaskIds : Classify(t)
    \/ \E t \in TaskIds : Setup(t)
    \/ \E t \in TaskIds : LoopTop(t)
    \/ \E t \in TaskIds, r \in Responses : CallClaude(t, r)
    \/ \E t \in TaskIds : ExecuteTool(t)
    \/ \E t \in TaskIds : HandleDelegation(t)
    \/ \E t \in TaskIds : CascadeCost(t)
    \/ \E t \in TaskIds : ReportSubtask(t)
    \/ \E t \in TaskIds : AppendToolResults(t)
    \/ \E t \in TaskIds : Complete(t)
    \/ \E t \in TaskIds : OnMessageResult(t)
    \/ \E t \in TaskIds : OnReactionResult(t)
    \/ \E m \in TaskIds, emoji \in {APPROVE, REJECT} : OnReactionAdd(m, emoji)

Spec == Init /\ [][Next]_vars

(* The responses that end a task or delegate. *)
DelegatingResponses ==
    { Response(PlainText, <<>>, "end_turn", 40),
      Response(PlainText, <<DelegateTask(200)>>, "tool_use", 0) }

FaultMessage == "fault"

(* run_agent_loop, lines 371-374, and process_task, lines 142-145: the     *)
(* handler of a fault persists failed and returns a failed outcome         *)
CatchFault(ts, fs, t) ==
    [tasks |-> [ts EXCEPT ![t].status = "failed", ![t].error = FaultMessage],
     frames |-> [fs EXCEPT ![t].pc = "returned",
                           ![t].outcome = TaskResult("failed", FaultMessage, FALSE, "", <<>>)]]

(* A call made inside the try block of run_agent_loop (lines 236-369: the  *)
(* repository, the reasoning service, the cost log, handle_delegation)     *)
(* raises.                                                                 *)
FaultInLoop(t) ==
    /\ frames[t].pc \in {"loop", "call", "tools", "complete"}
    /\ tasks' = CatchFault(tasks, frames, t).tasks
    /\ frames' = CatchFault(tasks, frames, t).frames
    /\ hist' = [hist EXCEPT ![t].fault = "loop"]
    /\ UNCHANGED <<cost_log, memory, pending, posted, recovered>>

(* A call made by run_agent_loop before its try block (lines 195-235: the  *)
(* classifier, the repository) raises. process_task catches it for a root  *)
(* it started; continue_task and run_subtask catch nothing, so the fault   *)
(* of a resumed root leaves on_reaction_add and the fault of a child is    *)
(* raised by handle_delegation inside the loop of its parent.              *)
FaultInSetup(t) ==
    /\ frames[t].pc = "setup"
    /\ hist' = [hist EXCEPT ![t].fault = "setup"]
    /\ IF frames[t].depth = 0
       THEN IF frames[t].conversation_history = <<>>
            THEN /\ tasks' = CatchFault(tasks, frames, t).tasks
                 /\ frames' = CatchFault(tasks, frames, t).frames
            ELSE /\ frames' = [frames EXCEPT ![t].pc = "done"]
                 /\ UNCHANGED tasks
       ELSE LET parent == tasks[t].parent_task_id
                gone == [frames EXCEPT ![t].pc = "done"]
            IN  /\ tasks' = CatchFault(tasks, gone, parent).tasks
                /\ frames' = CatchFault(tasks, gone, parent).frames
    /\ UNCHANGED <<cost_log, memory, pending, posted, recovered>>

(* run_agent_loop, lines 355-358: the row of a root is completed with its   *)
(* result; the session memory is still to be saved.                        *)
WriteCompleted(t) ==
    /\ frames[t].pc = "complete"
    /\ SavesMemory(frames[t].depth)
    /\ tasks' = [tasks EXCEPT ![t].status = "completed",
                              ![t].result = frames[t].final_response]
    /\ frames' = [frames EXCEPT ![t].pc = "save"]
    /\ UNCHANGED <<cost_log, memory, pending, posted, hist, recovered>>

(* run_agent_loop, lines 359-369: the session memory is saved and the loop  *)
(* returns the completed outcome.                                          *)
SaveSessionMemory(t) ==
    /\ frames[t].pc = "save"
    /\ memory' = save_session_memory(memory, t)
    /\ frames' = [frames EXCEPT
            ![t].pc = "returned",
            ![t].outcome = TaskResult("completed", frames[t].final_response, FALSE, "", <<>>)]
    /\ UNCHANGED <<tasks, cost_log, pending, posted, hist, recovered>>

(* run_agent_loop, lines 367-374: save_session_memory raises after the row *)
(* was completed; the handler of the loop persists failed and the fault's  *)
(* message.                                                                *)
FaultInSave(t) ==
    /\ frames[t].pc = "save"
    /\ tasks' = CatchFault(tasks, frames, t).tasks
    /\ frames' = CatchFault(tasks, frames, t).frames
    /\ hist' = [hist EXCEPT ![t].fault = "save"]
    /\ UNCHANGED <<cost_log, memory, pending, posted, recovered>>

(* handle_delegation, lines 117-124: progress_callback raises; the fault   *)
(* leaves handle_delegation and is caught by the loop of the parent.       *)
NotifyFails(t) ==
    /\ frames[t].pc = "report"
    /\ tasks' = CatchFault(tasks, frames, t).tasks
    /\ frames' = CatchFault(tasks, frames, t).frames
    /\ hist' = [hist EXCEPT ![t].notify_failed = TRUE]
    /\ UNCHANGED <<cost_log, memory, pending, posted, recovered>>

(* The submission of the first task, for every description of the bounded *)
(* set.                                                                   *)
NextSubmit ==
    /\ Roots = {}
    /\ \E description \in Descriptions : ProcessTask(description)

SpecSubmit == Init /\ [][NextSubmit]_vars

(* The same program with faults of its collaborators, for the responses   *)
(* that end a task or delegate.                                            *)
NextFaults ==
    \/ \E description \in RootDescriptions : ProcessTask(description)
    \/ \E t \in TaskIds : Classify(t)
    \/ \E t \in TaskIds : Setup(t)
    \/ \E t \in TaskIds : LoopTop(t)
    \/ \E t \in TaskIds, r \in DelegatingResponses : CallClaude(t, r)
    \/ \E t \in TaskIds : HandleDelegation(t)
    \/ \E t \in TaskIds : CascadeCost(t)
    \/ \E t \in TaskIds : ReportSubtask(t)
    \/ \E t \in TaskIds : AppendToolResults(t)
    \/ \E t \in TaskIds : Complete(t)
    \/ \E t \in TaskIds : OnMessageResult(t)
    \/ \E t \in TaskIds : OnReactionResult(t)
    \/ \E m \in TaskIds, emoji \in {APPROVE, REJECT} : OnReactionAdd(m, emoji)
    \/ \E t \in TaskIds : FaultInLoop(t)
    \/ \E t \in TaskIds : FaultInSetup(t)
    \/ \E t \in TaskIds : WriteCompleted(t)
    \/ \E t \in TaskIds : SaveSessionMemory(t)
    \/ \E t \in TaskIds : FaultInSave(t)
    \/ \E t \in TaskIds : NotifyFails(t)

SpecFaults == Init /\ [][NextFaults]_vars

(* Several root tasks in flight at once, their steps interleaved at every  *)
(* call of the repository, the reasoning service and a tool; for the       *)
(* responses that end a task or use a tool other than delegate_task.       *)
DirectResponses ==
    { Response(PlainText, <<>>, "end_turn", 40),
      Response(UnsureText, <<ReadFile>>, "tool_use", 0) }

NextInFlight ==
    \/ \E description \in RootDescriptions : ProcessTaskInFlight(description)
    \/ \E t \in TaskIds : Classify(t)
    \/ \E t \in TaskIds : Setup(t)
    \/ \E t \in TaskIds : LoopTop(t)
    \/ \E t \in TaskIds, r \in DirectResponses : CallClaude(t, r)
    \/ \E t \in TaskIds : ExecuteTool(t)
    \/ \E t \in TaskIds : AppendToolResults(t)
    \/ \E t \in TaskIds : Complete(t)
    \/ \E t \in TaskIds : OnMessageResult(t)

SpecInFlight == Init /\ [][NextInFlight]_vars

(* Several root tasks in flight at once whose loops delegate: the trees of  *)
(* two workers of budget 0.30 grow and report side by side.                *)
TreeDescriptions == { <<"$", "0", ".", "3", " ", "a">> }

NextTrees ==
    \/ /\ \A r1 \in Roots, r2 \in Roots : r1 = r2
       /\ \E description \in TreeDescriptions : ProcessTaskInFlight(description)
    \/ \E t \in TaskIds : Classify(t)
    \/ \E t \in TaskIds : Setup(t)
    \/ \E t \in TaskIds : LoopTop(t)
    \/ \E t \in TaskIds, r \in DelegatingResponses : CallClaude(t, r)
    \/ \E t \in TaskIds : HandleDelegation(t)
    \/ \E t \in TaskIds : CascadeCost(t)
    \/ \E t \in TaskIds : ReportSubtask(t)
    \/ \E t \in TaskIds : AppendToolResults(t)
    \/ \E t \in TaskIds : Complete(t)
    \/ \E t \in TaskIds : OnMessageResult(t)

SpecTrees == Init /\ [][NextTrees]_vars

(* The same program with crashes and restarts, for the responses that end  *)
(* a task or delegate.                                                     *)
NextRestart ==
    \/ \E description \in RootDescriptions : ProcessTask(description)
    \/ \E t \in TaskIds : Classify(t)
    \/ \E t \in TaskIds : Setup(t)
    \/ \E t \in TaskIds : LoopTop(t)
    \/ \E t \in TaskIds, r \in DelegatingResponses : CallClaude(t, r)
    \/ \E t \in TaskIds : HandleDelegation(t)
    \/ \E t \in TaskIds : CascadeCost(t)
    \/ \E t \in TaskIds : ReportSubtask(t)
    \/ \E t \in TaskIds : AppendToolResults(t)
    \/ \E t \in TaskIds : Complete(t)
    \/ \E t \in TaskIds : OnMessageResult(t)
    \/ \E t \in TaskIds : OnReactionResult(t)
    \/ \E m \in TaskIds, emoji \in {APPROVE, REJECT} : OnReactionAdd(m, emoji)
    \/ Restart

SpecRestart == Init /\ [][NextRestart]_vars

(* The same program for the descriptions that decide a role, and the       *)
(* responses that end a task or delegate.                                  *)
NextRoles ==
    \/ \E description \in RoleDescriptions : ProcessTask(description)
    \/ \E t \in TaskIds : Classify(t)
    \/ \E t \in TaskIds : Setup(t)
    \/ \E t \in TaskIds : LoopTop(t)
    \/ \E t \in TaskIds, r \in DelegatingResponses : CallClaude(t, r)
    \/ \E t \in TaskIds : HandleDelegation(t)
    \/ \E t \in TaskIds : CascadeCost(t)
    \/ \E t \in TaskIds : ReportSubtask(t)
    \/ \E t \in TaskIds : AppendToolResults(t)
    \/ \E t \in TaskIds : Complete(t)
    \/ \E t \in TaskIds : OnMessageResult(t)
    \/ \E t \in TaskIds : OnReactionResult(t)
    \/ \E m \in TaskIds, emoji \in {APPROVE, REJECT} : OnReactionAdd(m, emoji)

SpecRoles == Init /\ [][NextRoles]_vars

(* The same program with no bound on the calls, where the loops run to    *)
(* their step limits: the first task submitted is a worker or a planner,   *)
(* a response uses a tool that is free, ends the task, or (in the first    *)
(* iteration of a run) delegates.                                          *)
StepDescriptions ==
    { <<"$", "0", ".", "3", " ", "a">>,
      <<"$", "0", ".", "3", " ", "Every">> }

StepResponses(t) ==
    { Response(PlainText, <<ReadFile>>, "tool_use", 0),
      Response(PlainText, <<>>, "end_turn", 40) }
    \cup (IF frames[t].step = 1
          THEN {Response(PlainText, <<DelegateTask(200)>>, "tool_use", 0)}
          ELSE {})

NextSteps ==
    \/ /\ Roots = {}
       /\ \E description \in StepDescriptions : ProcessTask(description)
    \/ \E t \in TaskIds : Classify(t)
    \/ \E t \in TaskIds : Setup(t)
    \/ \E t \in TaskIds : LoopTop(t)
    \/ \E t \in TaskIds : \E r \in StepResponses(t) : call_claude(t, r)
    \/ \E t \in TaskIds : ExecuteTool(t)
    \/ \E t \in TaskIds : HandleDelegation(t)
    \/ \E t \in TaskIds : CascadeCost(t)
    \/ \E t \in TaskIds : ReportSubtask(t)
    \/ \E t \in TaskIds : AppendToolResults(t)
    \/ \E t \in TaskIds : Complete(t)
    \/ \E t \in TaskIds : OnMessageResult(t)
    \/ \E t \in TaskIds : OnReactionResult(t)
    \/ \E m \in TaskIds, emoji \in {APPROVE, REJECT} : OnReactionAdd(m, emoji)

SpecSteps == Init /\ [][NextSteps]_vars

(* The steps the program takes by itself once a handler runs: every call   *)
(* of the repository, the reasoning service and a tool returns.            *)
LoopSteps ==
    \/ \E t \in TaskIds : Classify(t)
    \/ \E t \in TaskIds : Setup(t)
    \/ \E t \in TaskIds : LoopTop(t)
    \/ \E t \in TaskIds : \E r \in StepResponses(t) : call_claude(t, r)
    \/ \E t \in TaskIds : ExecuteTool(t)
    \/ \E t \in TaskIds : HandleDelegation(t)
    \/ \E t \in TaskIds : CascadeCost(t)
    \/ \E t \in TaskIds : ReportSubtask(t)
    \/ \E t \in TaskIds : AppendToolResults(t)
    \/ \E t \in TaskIds : Complete(t)
    \/ \E t \in TaskIds : SaveSessionMemory(t)
    \/ \E t \in TaskIds : OnMessageResult(t)
    \/ \E t \in TaskIds : OnReactionResult(t)

(* The same program with no bound on the calls, where a call made for the  *)
(* root may raise instead of returning, and where no call hangs: a handler *)
(* that can take a step takes one.                                         *)
NextLive ==
    \/ /\ Roots = {}
       /\ \E description \in StepDescriptions : ProcessTask(description)
    \/ \E m \in TaskIds, emoji \in {APPROVE, REJECT} : OnReactionAdd(m, emoji)
    \/ LoopSteps
    \/ \E t \in Roots : WriteCompleted(t)
    \/ \E t \in Roots : FaultInLoop(t)
    \/ \E t \in Roots : FaultInSetup(t)
    \/ \E t \in Roots : FaultInSave(t)
    \/ \E t \in Roots : NotifyFails(t)

SpecLive == Init /\ [][NextLive]_vars /\ WF_vars(LoopSteps)

(* The same program where the texts of the responses are long and short,   *)
(* a child ends completed, stalled or failed, and the calls are bounded.   *)
ReportTexts == {NoText, PlainText, Text450, Text500, Text501}

ReportResponses ==
    { Response(PlainText, <<DelegateTask(200)>>, "tool_use", 0),
      Response(PlainText, <<ReadFile>>, "tool_use", 40) }
    \cup { Response(text, <<>>, "end_turn", 0) : text \in ReportTexts }

NextReport ==
    \/ /\ Roots = {}
       /\ \E description \in StepDescriptions : ProcessTask(description)
    \/ \E t \in TaskIds : Classify(t)
    \/ \E t \in TaskIds : Setup(t)
    \/ \E t \in TaskIds : LoopTop(t)
    \/ \E t \in TaskIds, r \in ReportResponses : CallClaude(t, r)
    \/ \E t \in TaskIds : ExecuteTool(t)
    \/ \E t \in TaskIds : HandleDelegation(t)
    \/ \E t \in TaskIds : CascadeCost(t)
    \/ \E t \in TaskIds : ReportSubtask(t)
    \/ \E t \in TaskIds : AppendToolResults(t)
    \/ \E t \in TaskIds : Complete(t)
    \/ \E t \in TaskIds : OnMessageResult(t)
    \/ \E t \in TaskIds : OnReactionResult(t)
    \/ \E m \in TaskIds, emoji \in {APPROVE, REJECT} : OnReactionAdd(m, emoji)
    \/ \E t \in TaskIds : FaultInLoop(t)

SpecReport == Init /\ [][NextReport]_vars

-----------------------------------------------------------------------------
(* Helpers of the properties *)

IsPrefix(s, t) == Len(s) <= Len(t) /\ SubSeq(t, 1, Len(s)) = s

Last(s) == s[Len(s)]

(* The tool results a task's loop holds: those of the running iteration    *)
(* and those already appended to its conversation.                         *)
ResultsInConversation(t) ==
    UNION {SeqToSet(frames[t].messages[i].results) : i \in 1..Len(frames[t].messages)}

ResultsSeen(t) == SeqToSet(frames[t].tool_results) \cup ResultsInConversation(t)

ReportedChildren(t) == {r.child : r \in {x \in ResultsSeen(t) : x.kind = "subtask"}}

RECURSIVE SumTokenCost(_)
SumTokenCost(S) ==
    IF S = {} THEN 0
    ELSE LET c == CHOOSE x \in S : TRUE
         IN  tasks[c].token_cost + SumTokenCost(S \ {c})

Ancestors(t) == SeqToSet(ParentChain(tasks, t))

FreshPlanner(t) == frames[t].role = "planner" /\ frames[t].conversation_history = <<>>

Resumed(t) == frames[t].conversation_history # <<>>

-----------------------------------------------------------------------------
(* C1: a planner started without a conversation whose first response holds *)
(* tool requests runs none of them, creates no child, has the assistant    *)
(* turn as the last turn of its conversation, is in status checkpoint (or  *)
(* was rejected from it) and has returned a checkpoint outcome with the    *)
(* plan-ready reason and that conversation.                                *)
C1_FirstPlannerResponseNeverExecuted ==
    \A t \in TaskIds :
        (FreshPlanner(t) /\ hist[t].calls >= 1 /\ hist[t].first_response.tool_uses # <<>>)
        => /\ hist[t].tools_run = 0
           /\ Children(t) = {}
           /\ tasks[t].status = "checkpoint" \/ hist[t].rejected
           /\ frames[t].outcome.status = "checkpoint"
           /\ frames[t].outcome.checkpoint_reason = "Plan ready for approval"
           /\ frames[t].outcome.conversation_history # <<>>
           /\ Last(frames[t].outcome.conversation_history)
                  = AssistantTurn(hist[t].first_response)

(* C2: the cost of a child is cascaded at most once, when the child is in  *)
(* a terminal status, and the cascade adds exactly the child's token_cost  *)
(* to every ancestor and to no other task; the child's token_cost does not *)
(* change afterwards; a child whose delegation has returned has been       *)
(* cascaded exactly once.                                                  *)
C2_CascadeStep ==
    \A c \in TaskIds :
        /\ hist'[c].cascades # hist[c].cascades
           => /\ hist[c].cascades = 0
              /\ hist'[c].cascades = 1
              /\ tasks[c].status \in Terminal
              /\ \A a \in TaskIds :
                    tasks'[a].token_cost =
                        tasks[a].token_cost
                        + (IF a \in Ancestors(c) THEN tasks[c].token_cost ELSE 0)
        /\ hist[c].cascades = 1 => tasks'[c].token_cost = tasks[c].token_cost

C2_CascadedOnceReturned ==
    \A c \in TaskIds :
        /\ hist[c].cascades <= 1
        /\ (tasks[c].parent_task_id # NoParent /\ frames[c].pc = "done")
           => hist[c].cascades = 1

C2_CascadeExactlyOnce == [][C2_CascadeStep]_vars /\ []C2_CascadedOnceReturned

C2_Witness ==
    \E c \in TaskIds :
        /\ tasks[c].depth >= 2
        /\ hist[c].cascades = 1
        /\ tasks[c].token_cost > 0
        /\ \A a \in Ancestors(c) : tasks[a].token_cost >= tasks[c].token_cost

(* C3: whenever a parent's loop holds the result of a child, that child is *)
(* in a terminal status, its cost has been cascaded, and the parent's      *)
(* token_cost holds its own logged spend plus the cost of every child      *)
(* whose result it holds.                                                  *)
C3_CostBeforeResult ==
    \A t \in TaskIds :
        /\ \A c \in ReportedChildren(t) :
              /\ tasks[c].parent_task_id = t
              /\ tasks[c].status \in Terminal
              /\ hist[c].cascades = 1
        /\ ReportedChildren(t) # {}
           => tasks[t].token_cost
                >= Logged(cost_log, t) + SumTokenCost(ReportedChildren(t))

C3_Witness ==
    \E t \in TaskIds :
        \E r \in ResultsInConversation(t) :
            r.kind = "subtask" /\ r.cost > 0 /\ tasks[t].token_cost >= r.cost

(* C4: the budget of every child row is at least MIN_SUBTASK_BUDGET and at *)
(* most both MAX_SUBTASK_BUDGET and what its parent had left (the parent's *)
(* budget minus its persisted token_cost) when the child was created.      *)
C4_ChildBudgetClamped ==
    \A c \in TaskIds :
        tasks[c].parent_task_id # NoParent
        => /\ MIN_SUBTASK_BUDGET <= tasks[c].budget
           /\ tasks[c].budget <= MAX_SUBTASK_BUDGET
           /\ tasks[c].budget <= hist[c].parent_remaining

C4_Witness ==
    \E c \in TaskIds :
        /\ tasks[c].parent_task_id # NoParent
        /\ hist[c].parent_remaining = 30
        /\ tasks[c].budget = 30
        /\ \E i \in 1..Len(frames[tasks[c].parent_task_id].messages) :
               ToolUse(1, DelegateTask(200)) \in
                   SeqToSet(frames[tasks[c].parent_task_id].messages[i].tool_uses)

(* C5: a delegation request that breaks a limit (the child would be deeper *)
(* than MAX_DELEGATION_DEPTH, the parent has MAX_SUBTASKS_PER_TASK         *)
(* children, the parent has less than MIN_SUBTASK_BUDGET left) is answered *)
(* with an error string as its tool result: no row is created, no cost is  *)
(* logged or cascaded, no status changes, the parent's loop goes on; and   *)
(* when the iteration's tools are done its results, the error string       *)
(* among them, are the last turn of the parent's conversation.             *)
BreaksLimit(t) ==
    \/ tasks[t].depth + 1 > MAX_DELEGATION_DEPTH
    \/ Cardinality(Children(t)) >= MAX_SUBTASKS_PER_TASK
    \/ tasks[t].budget - tasks[t].token_cost < MIN_SUBTASK_BUDGET

C5_RefusalStep ==
    \A t \in TaskIds :
        /\ ( /\ frames[t].pc = "tools"
             /\ frames[t].tool_uses # <<>>
             /\ Head(frames[t].tool_uses).name = "delegate_task"
             /\ BreaksLimit(t)
             /\ frames'[t] # frames[t] )
           => /\ tasks' = tasks
              /\ cost_log' = cost_log
              /\ Len(frames') = Len(frames)
              /\ \A c \in TaskIds : hist'[c].cascades = hist[c].cascades
              /\ frames'[t].pc = "tools"
              /\ frames'[t].tool_uses = Tail(frames[t].tool_uses)
              /\ Len(frames'[t].tool_results) = Len(frames[t].tool_results) + 1
              /\ Last(frames'[t].tool_results).kind = "error"
              /\ Last(frames'[t].tool_results).status \in DelegationErrors
        /\ (frames[t].pc = "tools" /\ frames'[t].pc \notin {"tools", "child"})
           => /\ frames'[t].messages # <<>>
              /\ Last(frames'[t].messages).results = frames[t].tool_results
              /\ tasks'[t].status \in {"in_progress", "checkpoint"}

C5_RefusedWithErrorString == [][C5_RefusalStep]_vars

C5_Witness ==
    \E t \in TaskIds :
        /\ tasks[t].budget - tasks[t].token_cost < MIN_SUBTASK_BUDGET
        /\ Children(t) = {}
        /\ frames[t].pc = "loop"
        /\ \E r \in ResultsInConversation(t) :
               r.kind = "error" /\ r.status = "Error: Insufficient budget remaining"

(* C6: no task is deeper than MAX_DELEGATION_DEPTH, a root has depth 0 and *)
(* a child has the depth of its parent plus 1.                             *)
C6_DepthInvariant ==
    \A t \in TaskIds :
        /\ tasks[t].depth <= MAX_DELEGATION_DEPTH
        /\ tasks[t].parent_task_id = NoParent => tasks[t].depth = 0
        /\ tasks[t].parent_task_id # NoParent
           => tasks[t].depth = tasks[tasks[t].parent_task_id].depth + 1

C6_Witness ==
    \E t \in TaskIds :
        /\ tasks[t].depth = MAX_DELEGATION_DEPTH
        /\ Children(t) = {}
        /\ \E r \in ResultsSeen(t) :
               r.kind = "error" /\ r.status = "Error: Max delegation depth reached"

(* C7: no parent has more than MAX_SUBTASKS_PER_TASK children, and a       *)
(* parent that was refused a delegation for that limit has exactly         *)
(* MAX_SUBTASKS_PER_TASK children.                                         *)
C7_FanOutInvariant ==
    \A t \in TaskIds :
        /\ Cardinality(Children(t)) <= MAX_SUBTASKS_PER_TASK
        /\ (\E r \in ResultsSeen(t) :
               r.kind = "error" /\ r.status = "Error: Max subtask limit reached")
           => Cardinality(Children(t)) = MAX_SUBTASKS_PER_TASK

C7_Witness ==
    \E t \in TaskIds :
        /\ Cardinality(Children(t)) = MAX_SUBTASKS_PER_TASK
        /\ \E r \in ResultsInConversation(t) :
               r.kind = "error" /\ r.status = "Error: Max subtask limit reached"

(* C8: a task in status checkpoint whose outcome the front end has handled *)
(* has a pending-checkpoint entry that holds the conversation of its       *)
(* suspension.                                                             *)
C8_CheckpointIsResumable ==
    \A t \in TaskIds :
        (tasks[t].status = "checkpoint" /\ frames[t].pc = "done")
        => /\ t \in DOMAIN pending
           /\ pending[t].task_id = t
           /\ pending[t].conversation_history # <<>>
           /\ pending[t].conversation_history = frames[t].messages

(* C9: in a loop resumed from a checkpoint, the first conversation sent to *)
(* the reasoning service is the conversation captured at the suspension,   *)
(* and the conversation of the loop always starts with it.                 *)
C9_ResumeRestoresConversation ==
    \A t \in TaskIds :
        Resumed(t)
        => /\ hist[t].suspended # <<>>
           /\ frames[t].conversation_history = hist[t].suspended
           /\ hist[t].first_sent # <<>> => hist[t].first_sent = hist[t].suspended
           /\ frames[t].pc # "setup" => IsPrefix(hist[t].suspended, frames[t].messages)

C9_Witness ==
    \E t \in TaskIds :
        /\ Resumed(t)
        /\ hist[t].first_sent = hist[t].suspended
        /\ Len(hist[t].suspended) >= 2
        /\ Len(frames[t].messages) > Len(hist[t].suspended)

(* C10: a task on whose checkpoint message a rejection was handled while   *)
(* it was in status checkpoint is failed with the rejection message and    *)
(* has no pending-checkpoint entry, from then on.                          *)
C10_RejectionFails ==
    \A t \in TaskIds :
        hist[t].rejected
        => /\ tasks[t].status = "failed"
           /\ tasks[t].error = "User rejected plan"
           /\ t \notin DOMAIN pending

(* C11: a run of the recovery sweep leaves no task in status in_progress:  *)
(* every task that was in_progress is failed with the restart diagnostic,  *)
(* every other row is as it was, and the sweep returns one message for     *)
(* each task it failed and no other.                                       *)
C11_SweepStep ==
    Restart
    => /\ \A t \in TaskIds : tasks'[t].status # "in_progress"
       /\ \A t \in TaskIds :
             IF tasks[t].status = "in_progress"
             THEN /\ tasks'[t] = [tasks[t] EXCEPT !.status = "failed",
                                                  !.error = RestartDiagnostic]
                  /\ Cardinality({k \in 1..Len(recovered') : recovered'[k] = t}) = 1
             ELSE /\ tasks'[t] = tasks[t]
                  /\ t \notin SeqToSet(recovered')
       /\ Len(tasks') = Len(tasks)

C11_SweepLeavesNoneInProgress == [][C11_SweepStep]_vars

C11_Witness ==
    /\ Len(recovered) >= 2
    /\ \A k \in 1..Len(recovered) :
          /\ tasks[recovered[k]].status = "failed"
          /\ tasks[recovered[k]].error = RestartDiagnostic
    /\ \E t \in TaskIds : tasks[t].status = "completed"

(* C12: a root worker that is completed has a token_cost of at most its    *)
(* budget.                                                                 *)
C12_CompletedWithinBudget ==
    \A t \in TaskIds :
        (tasks[t].depth = 0 /\ frames[t].role = "worker" /\ tasks[t].status = "completed")
        => tasks[t].token_cost <= tasks[t].budget

(* C13: the reasoning service is only invoked by a loop whose task has a   *)
(* token_cost of at most its budget; a task stopped by the budget guard is *)
(* stalled with the error "Budget exceeded", its loop has returned a       *)
(* stalled outcome, its token_cost is above its budget, and in the         *)
(* iteration of the guard it invoked no service and ran no tool.           *)
C13_BudgetGuard ==
    \A t \in TaskIds :
        /\ frames[t].pc = "call" => tasks[t].token_cost <= frames[t].budget
        /\ tasks[t].error = "Budget exceeded"
           => /\ tasks[t].status = "stalled"
              /\ frames[t].pc \in {"returned", "done"}
              /\ frames[t].outcome.status = "stalled"
              /\ tasks[t].token_cost > frames[t].budget
              /\ tasks[t].step_count = frames[t].step
              /\ hist[t].acted_step < frames[t].step

C13_Witness ==
    \E t \in TaskIds :
        /\ tasks[t].error = "Budget exceeded"
        /\ hist[t].calls >= 1
        /\ hist[t].acted_step = frames[t].step - 1
        /\ \E c \in Children(t) : tasks[c].token_cost > 0

(* C14: no loop invokes the reasoning service in a state where the sum of  *)
(* the cost log is above COST_LIMIT_DAILY.                                 *)
C14_GateStep ==
    \A t \in TaskIds :
        hist'[t].calls > hist[t].calls => get_daily_cost(cost_log) <= COST_LIMIT_DAILY

C14_NoCallAboveDailyLimit == [][C14_GateStep]_vars

(* C15: every change of the status of a task follows one of the edges      *)
(* queued -> classifying -> in_progress -> completed, failed, stalled or   *)
(* checkpoint, checkpoint -> in_progress, checkpoint -> failed.            *)
StatusEdges ==
    { <<"queued", "classifying">>, <<"classifying", "in_progress">>,
      <<"in_progress", "completed">>, <<"in_progress", "failed">>,
      <<"in_progress", "stalled">>, <<"in_progress", "checkpoint">>,
      <<"checkpoint", "in_progress">>, <<"checkpoint", "failed">> }

C15_StatusStep ==
    \A t \in TaskIds :
        tasks'[t].status # tasks[t].status
        => <<tasks[t].status, tasks'[t].status>> \in StatusEdges

C15_StatusFollowsEdges == [][C15_StatusStep]_vars

C17_NotifyFailureIsHarmless ==
    \A t \in TaskIds :
        hist[t].notify_failed
        => /\ tasks[t].status # "failed"
           /\ frames[t].child \in ReportedChildren(t)
           /\ hist[frames[t].child].cascades = 1

(* C18: a parent has at most one child that is not in a terminal status;   *)
(* when a child exists, every child of the same parent created before it   *)
(* is in a terminal status and has had its cost cascaded; and what the     *)
(* parent had left when the child was created is at most the parent's      *)
(* budget minus the cost of all those earlier children.                    *)
EarlierSiblings(c) == {s \in Children(tasks[c].parent_task_id) : s < c}

C18_SiblingsRunInTurn ==
    /\ \A p \in TaskIds :
          Cardinality({c \in Children(p) : tasks[c].status \notin Terminal}) <= 1
    /\ \A c \in TaskIds :
          tasks[c].parent_task_id # NoParent
          => /\ \A s \in EarlierSiblings(c) :
                    /\ tasks[s].status \in Terminal
                    /\ hist[s].cascades = 1
                    /\ frames[s].pc = "done"
             /\ hist[c].parent_remaining
                    <= tasks[tasks[c].parent_task_id].budget
                       - SumTokenCost(EarlierSiblings(c))

C18_Witness ==
    \E c \in TaskIds :
        /\ tasks[c].parent_task_id # NoParent
        /\ tasks[c].status = "in_progress"
        /\ Cardinality(EarlierSiblings(c)) >= 2
        /\ \A s \in EarlierSiblings(c) : tasks[s].token_cost > 0
        /\ hist[c].parent_remaining
               = tasks[tasks[c].parent_task_id].budget
                 - tasks[tasks[c].parent_task_id].token_cost

(* C19: a root submitted with a description that starts with a price tag   *)
(* (a dollar sign, a decimal number N that starts with a digit, then       *)
(* whitespace) has the budget N clamped into 0.01 .. MAX_TASK_BUDGET and   *)
(* stores the description without the tag and the whitespace after it; a   *)
(* root submitted with any other description has DEFAULT_TASK_BUDGET and   *)
(* stores the description as given; every root budget is in                *)
(* 0.01 .. MAX_TASK_BUDGET.                                                *)
IsNumber(x) ==
    /\ x # <<>>
    /\ x[1] \in Digits
    /\ \A i \in 1..Len(x) : x[i] \in Digits \cup {"."}
    /\ Cardinality({i \in 1..Len(x) : x[i] = "."}) <= 1

(* The tag of d ends at token n and the whitespace after it at token w. *)
PriceTag(d, n, w) ==
    /\ d[1] = "$"
    /\ IsNumber(SubSeq(d, 2, n))
    /\ w > n
    /\ \A i \in (n + 1)..w : d[i] \in Whitespace
    /\ w < Len(d) => d[w + 1] \notin Whitespace

C19_RootBudgetFromPriceTag ==
    \A t \in Roots :
        LET d == hist[t].submitted
            tagged == \E n \in 2..Len(d), w \in 3..Len(d) : PriceTag(d, n, w)
        IN  /\ \A n \in 2..Len(d), w \in 3..Len(d) :
                  PriceTag(d, n, w)
                  => /\ LET N == float(SubSeq(d, 2, n))
                         IN  tasks[t].budget =
                                 (IF N < 1 THEN 1
                                  ELSE IF N > MAX_TASK_BUDGET THEN MAX_TASK_BUDGET ELSE N)
                     /\ tasks[t].description = SubSeq(d, w + 1, Len(d))
            /\ ~tagged => /\ tasks[t].budget = DEFAULT_TASK_BUDGET
                          /\ tasks[t].description = d
            /\ 1 <= tasks[t].budget /\ tasks[t].budget <= MAX_TASK_BUDGET

C19_Witness ==
    \E t \in Roots :
        /\ hist[t].submitted = <<"$", "5", "5", " ", "a">>
        /\ tasks[t].budget = MAX_TASK_BUDGET
        /\ tasks[t].description = <<"a">>

(* C20: a root is a planner exactly when its budget is greater than 2.00,  *)
(* or its stored (prefix-stripped) description contains a decomposition    *)
(* signal, or that description is longer than 300 characters, and a worker *)
(* otherwise; the role decided at creation is the role of every later run  *)
(* of the loop for that root, the run after an approved checkpoint         *)
(* included.                                                               *)
C20_RoleDecidedOnce ==
    \A t \in Roots :
        LET description == tasks[t].description
            planner ==
                \/ tasks[t].budget > 200
                \/ \E signal \in _DECOMPOSE_SIGNALS :
                       \E i \in DOMAIN description : lower(description[i]) = signal
                \/ len(description) > 300
        IN  /\ hist[t].role = (IF planner THEN "planner" ELSE "worker")
            /\ frames[t].role = hist[t].role

C20_Witness ==
    \E t \in Roots :
        /\ Resumed(t)
        /\ frames[t].pc = "returned"
        /\ tasks[t].budget <= 200
        /\ len(tasks[t].description) > 300
        /\ hist[t].role = "planner"
        /\ frames[t].role = "planner"

(* C21: no delegated child costs more than MAX_SUBTASK_BUDGET: the         *)
(* token_cost of every task that has a parent, the cost cascaded into it   *)
(* from its own children included, is at most MAX_SUBTASK_BUDGET.          *)
C21_SubtaskCostCapped ==
    \A c \in TaskIds :
        tasks[c].parent_task_id # NoParent => tasks[c].token_cost <= MAX_SUBTASK_BUDGET

(* C22: in one run of the loop of a node at depth d the reasoning service  *)
(* is called at most STEPS_BY_DEPTH[d] times, which is 20, 10, 6, 3 for    *)
(* the depths 0..3 and so strictly less at a greater depth, and the        *)
(* step_count persisted never exceeds the max_steps of the node.           *)
C22_StepsBounded ==
    /\ \A t \in TaskIds :
          /\ hist[t].run_calls <= STEPS_BY_DEPTH(tasks[t].depth)
          /\ tasks[t].step_count <= tasks[t].max_steps
          /\ tasks[t].max_steps = STEPS_BY_DEPTH(tasks[t].depth)
          /\ tasks[t].depth \in 0..3
    /\ <<STEPS_BY_DEPTH(0), STEPS_BY_DEPTH(1), STEPS_BY_DEPTH(2), STEPS_BY_DEPTH(3)>>
           = <<20, 10, 6, 3>>

C22_Witness ==
    /\ \A d \in 0..3 :
          \E t \in TaskIds :
              /\ tasks[t].depth = d
              /\ hist[t].run_calls = STEPS_BY_DEPTH(d)
              /\ tasks[t].step_count = tasks[t].max_steps
    /\ \E t \in Roots : Resumed(t) /\ hist[t].calls > STEPS_BY_DEPTH(0)

(* C23: a node whose loop used all of its max_steps iterations, with no    *)
(* natural exit, no guard stop and no checkpoint, ends completed with the  *)
(* last text produced as its result: once the loop test has failed, the    *)
(* node is about to be completed or it is completed, its result and the    *)
(* outcome returned are the last text, and it is never failed, stalled or  *)
(* suspended.                                                              *)
C23_ExhaustionCompletes ==
    \A t \in TaskIds :
        hist[t].exhausted =>
            /\ frames[t].step = tasks[t].max_steps
            /\ \/ frames[t].pc = "complete" /\ tasks[t].status = "in_progress"
               \/ /\ frames[t].pc \in {"returned", "done"}
                  /\ tasks[t].status = "completed"
                  /\ tasks[t].result = frames[t].final_response
                  /\ tasks[t].error = NULL
                  /\ frames[t].outcome.status = "completed"
                  /\ frames[t].outcome.response = frames[t].final_response
                  /\ frames[t].final_response = PlainText

C23_Witness ==
    /\ \E t \in TaskIds :
          tasks[t].depth = 3 /\ hist[t].exhausted /\ tasks[t].status = "completed"
    /\ \E t \in Roots :
          hist[t].exhausted /\ tasks[t].status = "completed" /\ frames[t].pc = "done"

(* C24: a node enters status checkpoint in two ways only: (a) it is a      *)
(* planner started without a conversation and the first response of the    *)
(* reasoning service to it holds tool requests, or (b) it is a worker of   *)
(* depth 0, the tools of the iteration have all been executed and its      *)
(* latest text holds an uncertainty phrase.  So no delegated child and no  *)
(* step count takes a node to checkpoint.                                  *)
C24_CheckpointStep ==
    \A t \in TaskIds :
        (tasks[t].status # "checkpoint" /\ tasks'[t].status = "checkpoint")
        => \/ /\ frames[t].depth = 0
              /\ FreshPlanner(t)
              /\ frames[t].pc = "call"
              /\ hist[t].calls = 0
              /\ hist'[t].first_response.tool_uses # <<>>
           \/ /\ frames[t].depth = 0
              /\ frames[t].role = "worker"
              /\ frames[t].pc = "tools"
              /\ frames[t].tool_uses = <<>>
              /\ hist[t].acted_step = frames[t].step
              /\ hist[t].tools_run >= 1
              /\ _should_checkpoint(frames[t].final_response)

C24_CheckpointOnlyByTheTwoRules == [][C24_CheckpointStep]_vars

(* C25: within one iteration the tools requested are executed one at a     *)
(* time in the order of the response: the results held so far, followed by *)
(* the requests still to run, are the requests of the response, id by id   *)
(* and kind by kind; a delegation in flight is the first request still to  *)
(* run and no other child of the node is running, and no child is running  *)
(* when the next tool starts.  The results are appended as one single user *)
(* turn, never two in a row, whose entries are one per request, in request *)
(* order, each with the id of its request.                                 *)
ToolUseIds(tool_uses) == [i \in 1..Len(tool_uses) |-> tool_uses[i].id]

ToolResultIds(results) == [i \in 1..Len(results) |-> results[i].tool_use_id]

AnswersRequest(result, tool_use) ==
    /\ result.tool_use_id = tool_use.id
    /\ (result.kind = "tool") = (tool_use.name # "delegate_task")

C25_ToolsInOrderOneTurn ==
    \A t \in TaskIds :
        LET f == frames[t]
            requested == hist[t].requested
        IN  /\ f.pc \in {"tools", "child", "report"}
               => /\ ToolResultIds(f.tool_results) \o ToolUseIds(f.tool_uses)
                         = ToolUseIds(requested)
                  /\ \A i \in 1..Len(f.tool_results) :
                         AnswersRequest(f.tool_results[i], requested[i])
            /\ f.pc \in {"child", "report"}
               => /\ f.tool_uses # <<>>
                  /\ Head(f.tool_uses).name = "delegate_task"
                  /\ \A c \in Children(t) \ {f.child} : frames[c].pc = "done"
            /\ f.pc = "tools" => \A c \in Children(t) : frames[c].pc = "done"
            /\ \A k \in 2..Len(f.messages) :
                   f.messages[k].results # <<>>
                   => /\ f.messages[k].role = "user"
                      /\ f.messages[k - 1].results = <<>>
            /\ (\/ f.pc = "loop"
                \/ f.pc = "returned" /\ f.outcome.status \in {"checkpoint", "stalled"})
               /\ Last(f.messages).results # <<>>
               => /\ Len(Last(f.messages).results) = Len(requested)
                  /\ \A i \in 1..Len(requested) :
                         AnswersRequest(Last(f.messages).results[i], requested[i])

C25_Witness ==
    \E t \in TaskIds :
        /\ frames[t].pc = "loop"
        /\ Len(hist[t].requested) = 2
        /\ Len(Last(frames[t].messages).results) = 2
        /\ Last(frames[t].messages).results[1].kind = "subtask"
        /\ Last(frames[t].messages).results[2].kind = "subtask"
        /\ Last(frames[t].messages).results[1].child
               < Last(frames[t].messages).results[2].child

(* C26: a SessionMemory is persisted only for a node of depth 0 and only   *)
(* when its loop ends completed: every row of memory_session belongs to a  *)
(* root whose run returned completed, so none belongs to a delegated child *)
(* or to a run that ended in checkpoint, failed or stalled; and no two     *)
(* rows belong to the same task.                                           *)
C26_MemoryOnlyForCompletedRoots ==
    /\ \A i \in 1..Len(memory) :
          LET t == memory[i].task_id
          IN  /\ t \in TaskIds
              /\ tasks[t].depth = 0
              /\ tasks[t].parent_task_id = NoParent
              /\ tasks[t].status = "completed"
              /\ frames[t].pc \in {"returned", "done"}
              /\ frames[t].outcome.status = "completed"
    /\ \A i, j \in 1..Len(memory) : memory[i].task_id = memory[j].task_id => i = j
    /\ \A t \in TaskIds :
          (frames[t].pc \in {"returned", "done"}
               /\ frames[t].outcome.status \in {"checkpoint", "failed", "stalled"})
          => \A i \in 1..Len(memory) : memory[i].task_id # t

C26_Witness ==
    \E t \in Roots :
        /\ \E i \in 1..Len(memory) : memory[i].task_id = t
        /\ Resumed(t)
        /\ \E c \in Children(t) :
               /\ tasks[c].status = "completed"
               /\ \A i \in 1..Len(memory) : memory[i].task_id # c

(* C27: the text a delegation that ran a child returns to the parent holds *)
(* at most about 500 characters of the child's response: a response longer *)
(* than 500 characters is cut to its first 450 characters and a marker     *)
(* that names its length, a response of 1 to 500 characters is passed      *)
(* whole, an empty one becomes "(no output)"; and the text starts with the *)
(* prefix "[status] " exactly when the child's status is not completed.    *)
C27_SubtaskResultText ==
    \A t \in TaskIds :
        \A r \in ResultsSeen(t) :
            r.kind = "subtask"
            => LET result == frames[r.child].outcome
                   n == strlen(result.response)
               IN  /\ n > 500
                      => /\ r.content.response = <<Run("first 450", 450)>>
                         /\ r.content.truncated = n
                   /\ (1 <= n /\ n <= 500)
                      => /\ r.content.response = Characters(result.response)
                         /\ Length(r.content.response) = n
                         /\ r.content.truncated = 0
                   /\ n = 0
                      => /\ r.content.response = <<Run("(no output)", 11)>>
                         /\ r.content.truncated = 0
                   /\ Length(r.content.response) <= 500
                   /\ result.status = tasks[r.child].status
                   /\ r.content.status_prefix =
                          (IF tasks[r.child].status = "completed"
                           THEN <<>> ELSE <<"[", tasks[r.child].status, "] ">>)

C27_Witness ==
    \E t \in TaskIds :
        /\ \E r \in ResultsSeen(t) :
               /\ r.kind = "subtask"
               /\ frames[r.child].outcome.response = Text501
               /\ r.content.truncated = 501
               /\ r.content.status_prefix = <<>>
        /\ \E r \in ResultsSeen(t) :
               /\ r.kind = "subtask"
               /\ tasks[r.child].status = "stalled"
               /\ r.content.status_prefix = <<"[", "stalled", "] ">>

(* C28: result and error exclude each other and a failure has no result:   *)
(* no task has both a result and an error, and a task whose status is      *)
(* failed has no result.                                                   *)
C28_ResultXorError ==
    \A t \in TaskIds :
        /\ ~(tasks[t].result # NULL /\ tasks[t].error # NULL)
        /\ tasks[t].status = "failed" => tasks[t].result = NULL

(* C29: at most one pending-checkpoint entry refers to a node, and no node *)
(* ever gets a second one; every entry refers to a node whose status is    *)
(* checkpoint; the entry is gone once the checkpoint is approved, before   *)
(* the loop resumes, and once it is rejected.                              *)
C29_PendingCheckpoints ==
    /\ \A t \in TaskIds :
          /\ Cardinality({m \in DOMAIN pending : pending[m].task_id = t}) <= 1
          /\ hist[t].entries <= 1
          /\ Resumed(t) => \A m \in DOMAIN pending : pending[m].task_id # t
          /\ (hist[t].rejected /\ tasks[t].status = "failed")
             => \A m \in DOMAIN pending : pending[m].task_id # t
    /\ \A m \in DOMAIN pending :
          /\ pending[m].task_id \in TaskIds
          /\ tasks[pending[m].task_id].status = "checkpoint"
          /\ hist[pending[m].task_id].entries = 1

C29_Witness ==
    \E t \in Roots :
        /\ Resumed(t)
        /\ frames[t].pc = "setup"
        /\ tasks[t].status = "in_progress"
        /\ hist[t].entries = 1
        /\ t \notin DOMAIN pending

(* C30: after a crash and the recovery sweep no node is left queued,       *)
(* classifying or in_progress: the crash ended every loop, so no loop is   *)
(* executing for any node.                                                 *)
C30_SweepStep ==
    Restart
    => \A t \in TaskIds :
          /\ frames'[t].pc = "done"
          /\ tasks'[t].status \notin {"queued", "classifying", "in_progress"}

C30_SweepLeavesNoneWorking == [][C30_SweepStep]_vars

(* C31: no delegation made by a planner gives the child a budget larger    *)
(* than what the planner had left minus PLANNER_RESERVE_BUDGET.            *)
C31_PlannerKeepsReserve ==
    \A c \in TaskIds :
        (tasks[c].parent_task_id # NoParent
         /\ frames[tasks[c].parent_task_id].role = "planner")
        => tasks[c].budget <= hist[c].parent_remaining - PLANNER_RESERVE_BUDGET

(* A node and the nodes below it. *)
Subtree(t) == {t} \cup {d \in TaskIds : t \in SeqToSet(ParentChain(tasks, d))}

(* What the cost log holds for a set of nodes. *)
LoggedCost(nodes) == SumCost(SelectSeq(cost_log, LAMBDA row : row.task_id \in nodes))

(* No node of the subtree is waiting for a delegation it made. *)
DelegationsReturned(t) ==
    \A d \in Subtree(t) : frames[d].pc \notin {"child", "report"}

(* C32: once every delegation below a node has returned, the node's        *)
(* token_cost is the sum of the cost-log entries of the node and of its    *)
(* descendants: no spend is counted twice.                                 *)
C32_NoSpendCountedTwice ==
    \A t \in TaskIds :
        DelegationsReturned(t) => tasks[t].token_cost = LoggedCost(Subtree(t))

(* C33: terminal statuses are absorbing: a node whose status is completed, *)
(* failed or stalled keeps that status in every later step.                *)
C33_TerminalStep ==
    \A t \in TaskIds :
        tasks[t].status \in {"completed", "failed", "stalled"}
        => tasks'[t].status = tasks[t].status

C33_TerminalIsAbsorbing == [][C33_TerminalStep]_vars

(* Every assistant turn with tool requests is followed at once by a user   *)
(* turn with one result per request, and every turn of results follows     *)
(* such an assistant turn.                                                 *)
WellFormed(messages) ==
    \A i \in 1..Len(messages) :
        /\ (messages[i].role = "assistant" /\ messages[i].tool_uses # <<>>)
           => /\ i < Len(messages)
              /\ messages[i + 1].role = "user"
              /\ Len(messages[i + 1].results) = Len(messages[i].tool_uses)
              /\ \A k \in 1..Len(messages[i].tool_uses) :
                    messages[i + 1].results[k].tool_use_id = messages[i].tool_uses[k].id
        /\ messages[i].results # <<>>
           => /\ i > 1
              /\ messages[i - 1].role = "assistant"
              /\ messages[i - 1].tool_uses # <<>>

(* C34: the conversation a loop is about to send to the reasoning service  *)
(* is well formed with respect to tool use.                                *)
C34_ConversationWellFormed ==
    \A t \in TaskIds : frames[t].pc = "call" => WellFormed(frames[t].messages)

(* C35: over a node's whole life, an approved resume included, the calls   *)
(* of the reasoning service made for it never exceed its max_steps, and    *)
(* its persisted step_count never decreases.                               *)
C35_LifetimeStep ==
    \A t \in TaskIds :
        /\ hist'[t].calls <= tasks'[t].max_steps
        /\ tasks'[t].step_count >= tasks[t].step_count

C35_LifetimeStepsBounded == [][C35_LifetimeStep]_vars

(* C36: whenever a node's status is completed, failed, stalled or          *)
(* checkpoint, every one of its children is in a terminal status.          *)
C36_ChildrenEndBeforeParent ==
    \A p \in TaskIds :
        tasks[p].status \in Terminal \cup {"checkpoint"}
        => \A c \in Children(p) : tasks[c].status \in Terminal

(* C37: without a crash of the process, no node is in_progress while no    *)
(* loop is executing for it: a fault anywhere in process_task,             *)
(* continue_task or run_subtask ends with the node failed.                 *)
C37_NoneInProgressWithoutLoop ==
    \A t \in TaskIds :
        tasks[t].status = "in_progress" => frames[t].pc \notin {"returned", "done"}

(* The nodes whose token_cost a step changes, and those whose token_cost,  *)
(* status or step_count it changes.                                        *)
CostChanged == {t \in TaskIds : tasks'[t].token_cost # tasks[t].token_cost}
RowChanged ==
    {t \in TaskIds : \/ tasks'[t].token_cost # tasks[t].token_cost
                     \/ tasks'[t].status # tasks[t].status
                     \/ tasks'[t].step_count # tasks[t].step_count}

(* C38: a call of the reasoning service for a node changes the token_cost  *)
(* of that node only, a cascade for a node that of its ancestors only, and *)
(* nothing else changes a token_cost; with several roots in flight no step *)
(* changes token_cost, status or step_count in more than one root's tree.  *)
C38_IsolationStep ==
    /\ \A t \in TaskIds : hist'[t].calls > hist[t].calls => CostChanged \subseteq {t}
    /\ \A c \in TaskIds :
          hist'[c].cascades > hist[c].cascades
          => CostChanged \subseteq SeqToSet(ParentChain(tasks, c))
    /\ CostChanged # {}
       => \E t \in TaskIds : \/ hist'[t].calls > hist[t].calls
                             \/ hist'[t].cascades > hist[t].cascades
    /\ RowChanged # {} => \E r \in Roots : RowChanged \subseteq Subtree(r)

C38_CostIsolation == [][C38_IsolationStep]_vars

C38_Witness ==
    \E r1 \in Roots, r2 \in Roots :
        /\ r1 # r2
        /\ \E c \in Children(r1) :
              /\ hist[c].cascades = 1
              /\ tasks[c].token_cost > 0
              /\ tasks[r1].token_cost = tasks[c].token_cost
        /\ tasks[r2].status = "in_progress"
        /\ tasks[r2].token_cost = 0
        /\ \E c \in Children(r2) : tasks[c].status = "in_progress"

(* The outcomes a run of a root may return. *)
Outcomes == {"completed", "checkpoint", "failed", "stalled"}

(* A run of root t (process_task or continue_task) is going on. *)
RunGoing(t) ==
    /\ t \in TaskIds
    /\ tasks[t].depth = 0
    /\ frames[t].pc \notin {"returned", "done"}

(* The run of root t has returned one of the four outcomes. *)
RunReturned(t) ==
    /\ t \in TaskIds
    /\ frames[t].pc \in {"returned", "done"}
    /\ frames[t].outcome.status \in Outcomes

(* C39: when no call hangs, every run of a root, the first and every       *)
(* approved resume, eventually returns one outcome among completed,        *)
(* checkpoint, failed and stalled; the tree stays within the depth, the    *)
(* fan-out and the steps of each depth.                                    *)
C39_EveryRunReturns ==
    /\ [](\A t \in TaskIds :
            /\ tasks[t].depth <= MAX_DELEGATION_DEPTH
            /\ Cardinality(Children(t)) <= MAX_SUBTASKS_PER_TASK
            /\ hist[t].run_calls <= STEPS_BY_DEPTH(tasks[t].depth))
    /\ \A t \in 1..MaxTasks : RunGoing(t) ~> RunReturned(t)

====
